---- MODULE Spec2Model ----
(***************************************************************************)
(* A model of biolib's Taxonomy class (src/biolib/taxonomy.py): the        *)
(* Greengenes-style taxonomy collection, its validation, the hierarchy     *)
(* reconciliation and the relationship queries.                            *)
(*                                                                         *)
(* A Python str is a TLA+ string (Len, \o and SubSeq act on it), a list a  *)
(* sequence, a dict a function, a set a set.  Python indexes from 0: the   *)
(* operators below keep the code's 0-based indices and shift by one only   *)
(* when a sequence is read (At, Slice).  A dict iterates its items in one  *)
(* arbitrary but fixed order: the collection is the sequence of its items  *)
(* in that order.                                                          *)
(***************************************************************************)
EXTENDS Integers, Sequences, FiniteSets, TLC

VARIABLES taxonomy, call, ret

vars == <<taxonomy, call, ret>>

----------------------------------------------------------------------------
(* Bounds of the model *)

\* the largest number of records a collection holds
MaxRecords == 3

----------------------------------------------------------------------------
(* Python's built-in string, list and dict operations *)

Min(a, b) == IF a < b THEN a ELSE b

\* seq[i], i counted from 0
At(seq, i) == seq[i + 1]

\* seq[a:b] for 0 <= a: the end is clamped to the length, as Python clamps it
Slice(seq, a, b) == SubSeq(seq, a + 1, Min(b, Len(seq)))

\* s.startswith(p)
StartsWith(s, p) == Len(s) >= Len(p) /\ SubSeq(s, 1, Len(p)) = p

\* sub in s
Contains(sub, s) ==
    \E i \in 1..(Len(s) - Len(sub) + 1) : SubSeq(s, i, i + Len(sub) - 1) = sub

\* s.find(sub) for a sub that occurs in s: the least 0-based index
Find(s, sub) ==
    CHOOSE i \in 0..(Len(s) - Len(sub)) :
        /\ SubSeq(s, i + 1, i + Len(sub)) = sub
        /\ \A j \in 0..(i - 1) : SubSeq(s, j + 1, j + Len(sub)) # sub

UpperCase == "ABCDEFGHIJKLMNOPQRSTUVWXYZ"
LowerCase == "abcdefghijklmnopqrstuvwxyz"

\* the characters of a string
Chars(s) == { SubSeq(s, i, i) : i \in 1..Len(s) }

\* c.lower() of one character
LowerOf ==
    [c \in Chars(UpperCase) |->
        LET i == CHOOSE i \in 1..Len(UpperCase) : SubSeq(UpperCase, i, i) = c
        IN  SubSeq(LowerCase, i, i)]
LowerChar(c) == IF c \in DOMAIN LowerOf THEN LowerOf[c] ELSE c

\* s.lower()
RECURSIVE Lower(_)
Lower(s) ==
    IF s = "" THEN "" ELSE LowerChar(SubSeq(s, 1, 1)) \o Lower(SubSeq(s, 2, Len(s)))

\* c.islower() of one character
IsLower(c) == c \in Chars(LowerCase)

\* s.split(sep) for a one-character sep: every occurrence splits, empty pieces kept
RECURSIVE Split(_, _)
Split(s, sep) ==
    IF ~Contains(sep, s) THEN <<s>>
    ELSE LET i == Find(s, sep)
         IN  <<Slice(s, 0, i)>> \o Split(Slice(s, i + 1, Len(s)), sep)

\* sep.join(seq)
RECURSIVE Join(_, _)
Join(seq, sep) ==
    IF Len(seq) = 0 THEN ""
    ELSE IF Len(seq) = 1 THEN seq[1]
    ELSE seq[1] \o sep \o Join(Tail(seq), sep)

\* x in lst, lst.index(x) (0-based, first occurrence), and the set of a list's items
InList(x, lst) == \E i \in 1..Len(lst) : lst[i] = x
Index(lst, x) == CHOOSE i \in 0..(Len(lst) - 1) : lst[i + 1] = x /\ \A j \in 1..i : lst[j] # x
Items(lst) == { lst[i] : i \in 1..Len(lst) }

\* {} and d[k] = v
EmptyDict == [k \in {} |-> {}]
Put(d, k, v) == [x \in (DOMAIN d) \cup {k} |-> IF x = k THEN v ELSE d[x]]

\* a str compared with a tuple: values of different types are never equal
StrNotEqualTuple(s, t) == TRUE

----------------------------------------------------------------------------
(* The rank schema: class attributes of Taxonomy *)

rank_prefixes == <<"d__", "p__", "c__", "o__", "f__", "g__", "s__">>
rank_labels == <<"domain", "phylum", "class", "order", "family", "genus", "species">>

\* rank_index[prefix]
rank_index(prefix) == Index(rank_prefixes, prefix)

----------------------------------------------------------------------------
(* What a call gives back: a returned value or a raised exception *)

None == "None"

Returns(v) == [status |-> "ok", value |-> v]
Raises(exception) == [status |-> exception]

----------------------------------------------------------------------------
(* Taxonomy.validate_species_name *)

\* species_name without its 's__' prefix, when it has one
TestName(species_name) ==
    IF StartsWith(species_name, "s__")
    THEN Slice(species_name, 3, Len(species_name))
    ELSE species_name

\* a variant that looks for 'candidatus' in the name as it is written
MissingGenericNameCaseSensitive(test_name) ==
    IF Contains("candidatus", test_name)
    THEN Len(Split(test_name, " ")) <= 2
    ELSE Len(Split(test_name, " ")) <= 1

\* the full-name test: a generic name and a specific epithet
MissingGenericName(test_name) ==
    IF Contains("candidatus", Lower(test_name))
    THEN Len(Split(test_name, " ")) <= 2
    ELSE Len(Split(test_name, " ")) <= 1

\* the tell-tale signs of an invalid species name, in the order they are tried
TellTaleSigns(test_name) ==
    LET lower == Lower(test_name)
    IN  IF Contains(" bacterium", lower)
        THEN Returns(<<FALSE, "name contains the word 'bacterium'">>)
        ELSE IF Contains(" archaeon", lower)
        THEN Returns(<<FALSE, "name contains the word 'archaeon'">>)
        ELSE IF Contains(" archeaon", lower)
        THEN Returns(<<FALSE, "name contains the word 'archeaon'">>)
        ELSE IF Contains("-like", lower)
        THEN Returns(<<FALSE, "name contains '-like'">>)
        ELSE IF Contains(" group ", lower)
        THEN Returns(<<FALSE, "name contains 'group'">>)
        ELSE IF Contains(" symbiont", lower)
        THEN Returns(<<FALSE, "name contains 'symbiont'">>)
        ELSE IF Contains(" endosymbiont", lower)
        THEN Returns(<<FALSE, "name contains 'endosymbiont'">>)
        ELSE IF Contains(" taxon", lower)
        THEN Returns(<<FALSE, "name contains 'taxon'">>)
        ELSE IF Contains(" cluster", lower)
        THEN Returns(<<FALSE, "name contains 'cluster'">>)
        ELSE IF Contains(" of ", lower)
        THEN Returns(<<FALSE, "name contains 'of'">>)
        ELSE IF test_name = ""
        THEN Raises("IndexError")        \* test_name[0] of an empty string
        ELSE IF IsLower(SubSeq(test_name, 1, 1))
        THEN Returns(<<FALSE, "first letter of name is lowercase">>)
        ELSE IF Contains("sp.", lower)
        THEN Returns(<<FALSE, "name contains 'sp.'">>)
        ELSE Returns(<<TRUE, None>>)

\* a variant that puts the bare prefix 's__' through the checks
ValidateNamedSpecies(species_name, require_full, require_prefix) ==
    IF require_prefix /\ ~StartsWith(species_name, "s__")
    THEN Returns(<<FALSE, "name is missing the species prefix">>)
    ELSE IF require_full /\ MissingGenericName(TestName(species_name))
    THEN Returns(<<FALSE, "name appears to be missing the generic name">>)
    ELSE TellTaleSigns(TestName(species_name))

validate_species_name(species_name, require_full, require_prefix) ==
    IF species_name = "s__"
    THEN Returns(<<TRUE, None>>)
    ELSE IF require_prefix /\ ~StartsWith(species_name, "s__")
    THEN Returns(<<FALSE, "name is missing the species prefix">>)
    ELSE IF require_full /\ MissingGenericName(TestName(species_name))
    THEN Returns(<<FALSE, "name appears to be missing the generic name">>)
    ELSE TellTaleSigns(TestName(species_name))

----------------------------------------------------------------------------
(* Taxonomy.extract_valid_species_name *)

\* s.replace(old, ''): every occurrence of old, found from the left, is taken out
RECURSIVE Remove(_, _)
Remove(s, old) ==
    IF ~Contains(old, s) THEN s
    ELSE LET i == Find(s, old)
         IN  Slice(s, 0, i) \o Remove(Slice(s, i + Len(old), Len(s)), old)

\* the label without 's__', 'Candidatus' and 'candidatus'
WithoutPrefixAndCandidatus(taxon) ==
    Remove(Remove(Remove(taxon, "s__"), "Candidatus"), "candidatus")

\* 's__' + ' '.join(taxon_split[0:2])
FirstTwoNames(taxon_split) == "s__" \o Join(Slice(taxon_split, 0, 2), " ")

\* status "None": None is returned; the result of the sanity check, the call of
\* validate_species_name, is not looked at
extract_valid_species_name(taxon) ==
    IF Contains(" bacterium", Lower(taxon)) \/ Contains("sp.", Lower(taxon))
    THEN [status |-> "None"]
    ELSE LET cleaned == WithoutPrefixAndCandidatus(taxon)
         IN  IF cleaned = "" \/ IsLower(SubSeq(cleaned, 1, 1))
             THEN [status |-> "None"]
             ELSE IF Len(Split(cleaned, " ")) < 2
             THEN [status |-> "None"]
             ELSE LET name == FirstTwoNames(Split(cleaned, " "))
                      checked == validate_species_name(name, TRUE, TRUE)
                  IN  IF checked.status # "ok" THEN checked ELSE Returns(name)

----------------------------------------------------------------------------
(* Taxonomy.taxonomic_consistency *)

\* the records the reconciler skips
SkippedRecord(taxa) == At(taxa, 0) = "d__Viruses" \/ Contains("[P]", At(taxa, 0))

\* taxa[r] is the bare prefix of rank r
IsRankPrefix(taxa, r) == At(taxa, r) = At(rank_prefixes, r)

\* report_errors and a parent that differs from the one recorded
ReportedInconsistency(expected_parent, taxa, r, report_errors) ==
    /\ At(taxa, r) \in DOMAIN expected_parent
    /\ report_errors
    /\ At(taxa, r - 1) # expected_parent[At(taxa, r)]

\* a variant that keeps the parent recorded first
KeepExpectedParent(expected_parent, taxa, r) ==
    IF At(taxa, r) \in DOMAIN expected_parent
    THEN expected_parent
    ELSE Put(expected_parent, At(taxa, r), At(taxa, r - 1))

\* expected_parent[taxa[r]] = taxa[r - 1]
SetExpectedParent(expected_parent, taxa, r) ==
    Put(expected_parent, At(taxa, r), At(taxa, r - 1))

\* the loop over the ranks r, r + 1, ... of one record; ep is the call so far:
\* "ok" with the dict, "None" once None is returned, or the exception raised
RECURSIVE ConsistencyRanks(_, _, _, _)
ConsistencyRanks(ep, taxa, r, report_errors) ==
    IF r >= Len(taxa) THEN ep
    ELSE IF r >= Len(rank_prefixes) THEN Raises("IndexError")   \* rank_prefixes[r]
    ELSE IF IsRankPrefix(taxa, r) THEN ep                       \* break
    ELSE IF ReportedInconsistency(ep.value, taxa, r, report_errors)
    THEN [status |-> "None"]                                    \* return None
    ELSE ConsistencyRanks(Returns(SetExpectedParent(ep.value, taxa, r)),
                          taxa, r + 1, report_errors)

\* the loop over the records k, k + 1, ... of the collection
RECURSIVE ConsistencyRecords(_, _, _, _)
ConsistencyRecords(ep, records, k, report_errors) ==
    IF k > Len(records) \/ ep.status # "ok" THEN ep
    ELSE IF Len(records[k].taxa) = 0 THEN Raises("IndexError")  \* taxa[0]
    ELSE IF SkippedRecord(records[k].taxa)
    THEN ConsistencyRecords(ep, records, k + 1, report_errors)  \* continue
    ELSE ConsistencyRecords(ConsistencyRanks(ep, records[k].taxa, 1, report_errors),
                            records, k + 1, report_errors)

\* status "ok": the dict expected_parent is returned in value; "None": None is
\* returned; otherwise the exception raised
taxonomic_consistency(records, report_errors) ==
    ConsistencyRecords(Returns(EmptyDict), records, 1, report_errors)

----------------------------------------------------------------------------
(* Taxonomy.validate *)

\* the loop over enumerate(taxa) from r on: the first taxon whose first three
\* characters are not the prefix of its rank
RECURSIVE FirstInvalidPrefix(_, _)
FirstInvalidPrefix(taxa, r) ==
    IF r >= Len(taxa) THEN [found |-> "none"]
    ELSE IF r >= Len(rank_prefixes) THEN [found |-> "IndexError"]   \* rank_prefixes[r]
    ELSE IF Slice(At(taxa, r), 0, 3) # At(rank_prefixes, r) THEN [found |-> "taxon", r |-> r]
    ELSE FirstInvalidPrefix(taxa, r + 1)

\* if check_prefixes: ... for one record; v is the call so far
CheckPrefixes(v, rec) ==
    LET first == FirstInvalidPrefix(rec.taxa, 0)
    IN  IF first.found = "IndexError" THEN Raises("IndexError")
        ELSE IF first.found = "taxon"
        THEN [v EXCEPT !.value.invalid_prefixes =
                 Put(@, rec.id, <<At(rec.taxa, first.r), Join(rec.taxa, ";")>>)]
        ELSE v

\* if check_species: ... for one record
CheckSpecies(v, rec) ==
    LET species_index == rank_index("s__")
    IN  IF Len(rec.taxa) > species_index
        THEN LET species_name == At(rec.taxa, species_index)
                 checked == validate_species_name(species_name, TRUE, TRUE)
             IN  IF checked.status # "ok" THEN checked
                 ELSE IF ~checked.value[1]
                 THEN [v EXCEPT !.value.invalid_species_name =
                          Put(@, rec.id, <<species_name, checked.value[2]>>)]
                 ELSE v
        ELSE v

\* a variant without the continue: the other checks follow the rank count
ValidateRecordEveryCheck(v, rec, check_prefixes, check_ranks, check_species) ==
    LET n == IF check_ranks /\ Len(rec.taxa) # Len(rank_prefixes)
             THEN [v EXCEPT !.value.invalid_ranks = Put(@, rec.id, Join(rec.taxa, ";"))]
             ELSE v
        p == IF check_prefixes THEN CheckPrefixes(n, rec) ELSE n
    IN  IF p.status = "ok" /\ check_species THEN CheckSpecies(p, rec) ELSE p

\* the body of the first loop for one record
ValidateRecord(v, rec, check_prefixes, check_ranks, check_species) ==
    IF check_ranks /\ Len(rec.taxa) # Len(rank_prefixes)
    THEN [v EXCEPT !.value.invalid_ranks = Put(@, rec.id, Join(rec.taxa, ";"))]  \* continue
    ELSE LET p == IF check_prefixes THEN CheckPrefixes(v, rec) ELSE v
         IN  IF p.status = "ok" /\ check_species THEN CheckSpecies(p, rec) ELSE p

\* the first loop over the records k, k + 1, ...
RECURSIVE ValidateRecords(_, _, _, _, _, _)
ValidateRecords(v, records, k, check_prefixes, check_ranks, check_species) ==
    IF k > Len(records) \/ v.status # "ok" THEN v
    ELSE ValidateRecords(
             ValidateRecord(v, records[k], check_prefixes, check_ranks, check_species),
             records, k + 1, check_prefixes, check_ranks, check_species)

\* invalid_hierarchies[child].add(parent) on a defaultdict(set)
AddToSet(d, k, x) == Put(d, k, (IF k \in DOMAIN d THEN d[k] ELSE {}) \cup {x})

\* a variant that adds the parent the record gives and not the expected one
AddOwnParent(invalid_hierarchies, expected_parent, taxa, r) ==
    AddToSet(invalid_hierarchies, At(taxa, r), At(taxa, r - 1))

\* the two add calls of the hierarchy loop
AddParents(invalid_hierarchies, expected_parent, taxa, r) ==
    AddToSet(AddToSet(invalid_hierarchies, At(taxa, r), At(taxa, r - 1)),
             At(taxa, r), expected_parent[At(taxa, r)])

\* if r == self.rank_index['s__'] and not check_species
SpeciesNotChecked(r, check_species) == r = rank_index("s__") /\ ~check_species

\* the hierarchy loop over the ranks r, r + 1, ... of one record; h is the call so
\* far, its value the dict invalid_hierarchies
RECURSIVE HierarchyRanks(_, _, _, _, _)
HierarchyRanks(h, expected_parent, taxa, r, check_species) ==
    IF r >= Len(taxa) THEN h
    ELSE IF r >= Len(rank_prefixes) THEN Raises("IndexError")       \* rank_prefixes[r]
    ELSE IF IsRankPrefix(taxa, r) \/ SpeciesNotChecked(r, check_species)
    THEN HierarchyRanks(h, expected_parent, taxa, r + 1, check_species)   \* continue
    ELSE IF At(taxa, r) \notin DOMAIN expected_parent
    THEN Raises("KeyError")                                         \* expected_parent[taxa[r]]
    ELSE IF At(taxa, r - 1) # expected_parent[At(taxa, r)]
    THEN HierarchyRanks(Returns(AddParents(h.value, expected_parent, taxa, r)),
                        expected_parent, taxa, r + 1, check_species)
    ELSE HierarchyRanks(h, expected_parent, taxa, r + 1, check_species)

\* the hierarchy loop over the records k, k + 1, ...
RECURSIVE HierarchyRecords(_, _, _, _, _)
HierarchyRecords(h, expected_parent, records, k, check_species) ==
    IF k > Len(records) \/ h.status # "ok" THEN h
    ELSE HierarchyRecords(
             HierarchyRanks(h, expected_parent, records[k].taxa, 1, check_species),
             expected_parent, records, k + 1, check_species)

\* invalid_hierarchies, or the exception raised while it is built
CheckHierarchy(records, check_hierarchy, check_species) ==
    IF ~check_hierarchy THEN Returns(EmptyDict)
    ELSE LET expected_parent == taxonomic_consistency(records, FALSE)
         IN  IF expected_parent.status # "ok" THEN expected_parent
             ELSE HierarchyRecords(Returns(EmptyDict), expected_parent.value,
                                   records, 1, check_species)

\* the four dicts returned, or the exception raised (report_errors only prints)
validate(records, check_prefixes, check_ranks, check_hierarchy, check_species) ==
    LET v == ValidateRecords(
                 Returns([invalid_ranks |-> EmptyDict, invalid_prefixes |-> EmptyDict,
                          invalid_species_name |-> EmptyDict]),
                 records, 1, check_prefixes, check_ranks, check_species)
        h == CheckHierarchy(records, check_hierarchy, check_species)
    IN  IF v.status # "ok" THEN v
        ELSE IF h.status # "ok" THEN h
        ELSE Returns([invalid_ranks |-> v.value.invalid_ranks,
                      invalid_prefixes |-> v.value.invalid_prefixes,
                      invalid_species_name |-> v.value.invalid_species_name,
                      invalid_hierarchies |-> h.value])

----------------------------------------------------------------------------
(* The relationship queries *)

\* a variant that keeps every deeper taxon, bare prefixes too
EveryDeeperTaxon(taxon, taxa) ==
    Items(Slice(taxa, Index(taxa, taxon) + 1, Len(taxa)))

\* the taxa after the first occurrence of taxon that are longer than a bare prefix
DeeperNamedTaxa(taxon, taxa) ==
    LET deeper == Slice(taxa, Index(taxa, taxon) + 1, Len(taxa))
    IN  { deeper[i] : i \in { j \in 1..Len(deeper) : Len(deeper[j]) > 3 } }

\* the loop of children over the records k, k + 1, ...; c is the set so far
RECURSIVE ChildrenRecords(_, _, _, _)
ChildrenRecords(c, taxon, records, k) ==
    IF k > Len(records) THEN c
    ELSE IF ~InList(taxon, records[k].taxa)
    THEN ChildrenRecords(c, taxon, records, k + 1)
    ELSE IF StartsWith(taxon, "s__")
    THEN ChildrenRecords(c \cup {records[k].id}, taxon, records, k + 1)
    ELSE ChildrenRecords(c \cup DeeperNamedTaxa(taxon, records[k].taxa),
                         taxon, records, k + 1)

children(taxon, records) == Returns(ChildrenRecords({}, taxon, records, 1))

\* a variant that stores the ancestors of the taxon of the first rank too
SetParentsAtEveryRank(p, taxa, i) == Put(p, At(taxa, i), Slice(taxa, 0, i))

\* if i != 0: p[taxon] = taxa[0:i]
SetParents(p, taxa, i) ==
    IF i # 0 THEN Put(p, At(taxa, i), Slice(taxa, 0, i)) ELSE p

\* the loop of parents over enumerate(taxa) from i on; p is the dict so far
RECURSIVE ParentsTaxa(_, _, _)
ParentsTaxa(p, rec, i) ==
    IF i >= Len(rec.taxa) THEN p
    ELSE ParentsTaxa(SetParents(Put(p, rec.id, rec.taxa), rec.taxa, i), rec, i + 1)

\* the loop of parents over the records k, k + 1, ...
RECURSIVE ParentsRecords(_, _, _)
ParentsRecords(p, records, k) ==
    IF k > Len(records) THEN p
    ELSE ParentsRecords(ParentsTaxa(p, records[k], 0), records, k + 1)

\* the keys stored in the defaultdict(list) returned; reading any other key of it
\* gives the default, an empty list
parents(records) == Returns(ParentsRecords(EmptyDict, records, 1))

\* the test that guards d[taxa[rank_index]].add(taxon_id): the taxon against the
\* whole tuple rank_prefixes
NotRankPrefixes(taxon) == StrNotEqualTuple(taxon, rank_prefixes)

\* the loop of extant_taxa_for_rank over the records k, k + 1, ...
RECURSIVE ExtantRecords(_, _, _, _)
ExtantRecords(d, rank_idx, records, k) ==
    IF k > Len(records) \/ d.status # "ok" THEN d
    ELSE IF rank_idx >= Len(records[k].taxa) THEN Raises("IndexError")  \* taxa[rank_index]
    ELSE ExtantRecords(
             IF NotRankPrefixes(At(records[k].taxa, rank_idx))
             THEN Returns(AddToSet(d.value, At(records[k].taxa, rank_idx), records[k].id))
             ELSE d,
             rank_idx, records, k + 1)

extant_taxa_for_rank(rank, records) ==
    IF ~InList(rank, rank_labels) THEN Raises("AssertionError")
    ELSE ExtantRecords(Returns(EmptyDict), Index(rank_labels, rank), records, 1)

----------------------------------------------------------------------------
(* The codec: Taxonomy.taxa, Taxonomy.check_full, Taxonomy.read and          *)
(* Taxonomy.write.  A file is the sequence of its lines, each with the       *)
(* newline that ends it                                                      *)

\* the characters str.strip() removes (the vertical tab, which no input of the
\* model holds, is left out)
Whitespace == {" ", "\t", "\n", "\r", "\f"}

\* s.rstrip(), s.lstrip() and s.strip()
RECURSIVE RStrip(_)
RStrip(s) ==
    IF s # "" /\ SubSeq(s, Len(s), Len(s)) \in Whitespace
    THEN RStrip(SubSeq(s, 1, Len(s) - 1))
    ELSE s
RECURSIVE LStrip(_)
LStrip(s) ==
    IF s # "" /\ SubSeq(s, 1, 1) \in Whitespace
    THEN LStrip(SubSeq(s, 2, Len(s)))
    ELSE s
Strip(s) == LStrip(RStrip(s))

\* [x.strip() for x in tax_str.split(';')]
StrippedTaxa(tax_str) ==
    LET pieces == Split(tax_str, ";")
    IN  [i \in 1..Len(pieces) |-> Strip(pieces[i])]

\* Taxonomy.taxa (the name taxa is that of the records' field)
Taxonomy_taxa(tax_str) == Returns(StrippedTaxa(tax_str))

\* the loop of check_full over enumerate(taxa) from r on: every taxon has the
\* prefix of its rank
RECURSIVE EveryPrefixExpected(_, _)
EveryPrefixExpected(taxa_list, r) ==
    IF r >= Len(taxa_list) THEN TRUE
    ELSE IF Slice(At(taxa_list, r), 0, 3) # At(rank_prefixes, r) THEN FALSE
    ELSE EveryPrefixExpected(taxa_list, r + 1)

check_full(tax_str) ==
    LET taxa_list == StrippedTaxa(tax_str)
    IN  IF Len(taxa_list) # Len(rank_prefixes) THEN Returns(FALSE)
        ELSE Returns(EveryPrefixExpected(taxa_list, 0))

\* the loop of taxa_at_ranks over enumerate(taxa) from rank on; d is the dict so far
RECURSIVE LabelTaxa(_, _, _)
LabelTaxa(d, taxa_list, rank) ==
    IF rank >= Len(taxa_list) THEN Returns(d)
    ELSE IF rank >= Len(rank_labels) THEN Raises("IndexError")      \* rank_labels[rank]
    ELSE LabelTaxa(Put(d, At(rank_labels, rank), At(taxa_list, rank)), taxa_list, rank + 1)

\* the function ends after its loop, without a return statement: the dict d is
\* dropped and the call gives None
taxa_at_ranks(tax_str) ==
    LET d == LabelTaxa(EmptyDict, StrippedTaxa(tax_str), 0)
    IN  IF d.status # "ok" THEN d ELSE [status |-> "None"]

\* a variant of read that splits the taxonomy string as it stands
KeepTrailingSemicolon(tax_str) == tax_str

\* if tax_str[-1] == ';': tax_str = tax_str[0:-1], for a tax_str that is not empty
RemoveTrailingSemicolon(tax_str) ==
    IF SubSeq(tax_str, Len(tax_str), Len(tax_str)) = ";"
    THEN SubSeq(tax_str, 1, Len(tax_str) - 1)
    ELSE tax_str

\* d[unique_id] = taxa_list on the items of a dict: the value of a key that is
\* there is replaced, a new key is added
SetItem(d, unique_id, taxa_list) ==
    IF \E k \in 1..Len(d) : d[k].id = unique_id
    THEN [k \in 1..Len(d) |->
             IF d[k].id = unique_id THEN [id |-> unique_id, taxa |-> taxa_list] ELSE d[k]]
    ELSE Append(d, [id |-> unique_id, taxa |-> taxa_list])

\* the body of the loop of read for one line; d is the call so far
ReadLine(d, line) ==
    LET line_split == Split(line, "\t")
    IN  IF Len(line_split) < 2 THEN Raises("IndexError")             \* line_split[1]
        ELSE LET tax_str == RStrip(At(line_split, 1))
             IN  IF tax_str = "" THEN Raises("IndexError")           \* tax_str[-1]
                 ELSE Returns(SetItem(d.value, At(line_split, 0),
                                      StrippedTaxa(RemoveTrailingSemicolon(tax_str))))

\* the loop of read over the lines k, k + 1, ... of the file
RECURSIVE ReadLines(_, _, _)
ReadLines(d, file, k) ==
    IF k > Len(file) \/ d.status # "ok" THEN d
    ELSE ReadLines(ReadLine(d, file[k]), file, k + 1)

\* the items of the dict returned, or the exception raised
read(taxonomy_file) == ReadLines(Returns(<<>>), taxonomy_file, 1)

\* the lines write puts in the output file, one for each item of the dict
write(records) ==
    [k \in 1..Len(records) |-> records[k].id \o "\t" \o Join(records[k].taxa, ";") \o "\n"]

----------------------------------------------------------------------------
(* Taxonomy.fill_missing_ranks *)

\* a variant that takes the taxon under the cursor whatever its prefix
CursorInRange(taxa_list, cur_taxa_index, rank_prefix) ==
    Len(taxa_list) > cur_taxa_index

\* a variant that takes the taxon under the cursor only when it is the bare prefix
CursorAtBarePrefix(taxa_list, cur_taxa_index, rank_prefix) ==
    Len(taxa_list) > cur_taxa_index /\ At(taxa_list, cur_taxa_index) = rank_prefix

\* a variant that never takes the last taxon of the list
CursorBeforeLast(taxa_list, cur_taxa_index, rank_prefix) ==
    Len(taxa_list) > cur_taxa_index + 1
        /\ Slice(At(taxa_list, cur_taxa_index), 0, 3) = rank_prefix

\* len(taxa) > cur_taxa_index and taxa[cur_taxa_index][0:3] == rank_prefix
CursorAtRank(taxa_list, cur_taxa_index, rank_prefix) ==
    Len(taxa_list) > cur_taxa_index
        /\ Slice(At(taxa_list, cur_taxa_index), 0, 3) = rank_prefix

\* the loop over the rank prefixes r, r + 1, ...; new_taxa is the list so far
RECURSIVE FillRanks(_, _, _, _)
FillRanks(new_taxa, taxa_list, cur_taxa_index, r) ==
    IF r >= Len(rank_prefixes) THEN new_taxa
    ELSE IF CursorAtRank(taxa_list, cur_taxa_index, At(rank_prefixes, r))
    THEN FillRanks(Append(new_taxa, At(taxa_list, cur_taxa_index)),
                   taxa_list, cur_taxa_index + 1, r + 1)
    ELSE FillRanks(Append(new_taxa, At(rank_prefixes, r)),
                   taxa_list, cur_taxa_index, r + 1)

fill_missing_ranks(taxa_list) == Returns(FillRanks(<<>>, taxa_list, 0, 0))

----------------------------------------------------------------------------
(* Taxonomy.read_from_tree.  The tree is an external collaborator that gives *)
(* its leaves, each node's parent and each node's optional label: a tree is  *)
(* the sequence of its leaves, a leaf the label of its taxon and the labels  *)
(* of its ancestors from its parent node up to the root, "" for a node       *)
(* without a label                                                           *)

Digits == "0123456789"

\* biolib.common.is_float: the string reads as a plain number, an optional sign
\* and digits around at most one decimal point
is_float(s) ==
    LET unsigned == IF s # "" /\ SubSeq(s, 1, 1) \in {"+", "-"}
                    THEN SubSeq(s, 2, Len(s)) ELSE s
        points == { i \in 1..Len(unsigned) : SubSeq(unsigned, i, i) = "." }
    IN  /\ Cardinality(points) <= 1
        /\ \E i \in 1..Len(unsigned) : SubSeq(unsigned, i, i) \in Chars(Digits)
        /\ \A i \in 1..Len(unsigned) : SubSeq(unsigned, i, i) \in Chars(Digits) \cup {"."}

\* if ':' in taxa_str: taxa_str = taxa_str.split(':')[1]
SecondColonField(label) == At(Split(label, ":"), 1)

\* the taxonomy string of a label
LabelTaxaStr(label) == IF Contains(":", label) THEN SecondColonField(label) ELSE label

\* the while loop from the n-th ancestor on; taxa_list is the list so far
RECURSIVE AncestorTaxa(_, _, _)
AncestorTaxa(taxa_list, ancestors, n) ==
    IF n > Len(ancestors) THEN taxa_list
    ELSE IF ancestors[n] # "" /\ ~is_float(LabelTaxaStr(ancestors[n]))
    THEN AncestorTaxa(StrippedTaxa(LabelTaxaStr(ancestors[n])) \o taxa_list,
                      ancestors, n + 1)
    ELSE AncestorTaxa(taxa_list, ancestors, n + 1)

\* a variant that leaves the species label as it is
KeepSpeciesLabel(taxa_list) == taxa_list

\* if len(taxa) == 7: the genus name is put before a species label without it
AppendGenusName(taxa_list) ==
    IF Len(taxa_list) = 7
    THEN LET genus == Slice(At(taxa_list, 5), 3, Len(At(taxa_list, 5)))
             species == Slice(At(taxa_list, 6), 3, Len(At(taxa_list, 6)))
         IN  IF ~Contains(genus, species)
             THEN [taxa_list EXCEPT ![7] = "s__" \o genus \o " " \o species]
             ELSE taxa_list
    ELSE taxa_list

\* a variant that lets a chain of eight taxa through
MoreThanEightTaxa(taxa_list) == Len(taxa_list) > 8

\* if len(taxa) > 7
MoreThanSevenTaxa(taxa_list) == Len(taxa_list) > 7

\* the body of the loop over the leaves for one leaf; t is the call so far
ReadLeaf(t, leaf) ==
    LET taxa_list == AncestorTaxa(<<>>, leaf.ancestors, 1)
    IN  IF MoreThanSevenTaxa(taxa_list) THEN Raises("SystemExit")    \* sys.exit(-1)
        ELSE Returns(SetItem(t.value, leaf.label,
                             fill_missing_ranks(AppendGenusName(taxa_list)).value))

\* the loop over the leaves k, k + 1, ... of the tree
RECURSIVE ReadLeaves(_, _, _)
ReadLeaves(t, tree, k) ==
    IF k > Len(tree) \/ t.status # "ok" THEN t
    ELSE ReadLeaves(ReadLeaf(t, tree[k]), tree, k + 1)

\* the items of the dict returned, or SystemExit
read_from_tree(tree) == ReadLeaves(Returns(<<>>), tree, 1)

----------------------------------------------------------------------------
(* The records the collections are built from *)

Bacillus ==
    <<"d__Bacteria", "p__Firmicutes", "c__Bacilli", "o__Bacillales", "f__Bacillaceae",
      "g__Bacillus">>

SampleRecords ==
    { \* under-length records over one domain: one parent, another parent for the
      \* same class, another class under the same parent
      <<"d__X", "p__Y", "c__Z">>,
      <<"d__X", "p__W", "c__Z">>,
      <<"d__X", "p__Y", "c__Q">>,
      \* the records the reconciler skips
      <<"d__Viruses", "p__Y", "c__Z">>,
      <<"d__[P]X", "p__W", "c__Z">>,
      \* a missing rank: the class stands where the phylum is expected
      <<"d__X", "c__Z">>,
      \* records of seven ranks: a named species, an unclassified one, the same
      \* species under another genus, a species name that is no binomial
      Bacillus \o <<"s__Bacillus subtilis">>,
      Bacillus \o <<"s__">>,
      <<"d__Bacteria", "p__Firmicutes", "c__Bacilli", "o__Bacillales", "f__Bacillaceae",
        "g__Geobacillus", "s__Bacillus subtilis">>,
      Bacillus \o <<"s__Some bacterium">>,
      \* seven ranks, the class without its prefix
      <<"d__Bacteria", "p__Firmicutes", "Bacilli", "o__Bacillales", "f__Bacillaceae",
        "g__Bacillus", "s__">>,
      \* seven ranks with the gaps filled in around a named class
      <<"d__Bacteria", "p__", "c__Bacilli", "o__", "f__", "g__", "s__">>,
      \* eight taxa
      Bacillus \o <<"s__Some bacterium", "t__168">> }

\* the identifier of the n-th record read
UniqueId(n) == "g" \o ToString(n)

\* every taxon of the collection
TaxaOf(records) == UNION { Items(records[k].taxa) : k \in 1..Len(records) }

\* the species taxa of the records that have seven taxa or more
SpeciesOf(records) ==
    { At(records[k].taxa, 6) : k \in { j \in 1..Len(records) : Len(records[j].taxa) > 6 } }

\* the seven ranks of one genome, and the taxa lists that keep some of them in order
FullRecord == Bacillus \o <<"s__Bacillus subtilis">>

RECURSIVE Pick(_, _, _)
Pick(seq, kept, i) ==
    IF i > Len(seq) THEN <<>>
    ELSE (IF i \in kept THEN <<seq[i]>> ELSE <<>>) \o Pick(seq, kept, i + 1)

RankOrderedTaxa == { Pick(FullRecord, kept, 1) : kept \in SUBSET (1..Len(FullRecord)) }

\* the lists handed to fill_missing_ranks: rank-ordered ones, lists with placeholders,
\* with input left over (an eighth taxon, a repeated rank, a rank out of order) and
\* with a taxon shorter than a prefix
SampleTaxa ==
    RankOrderedTaxa \cup
    { <<"d__Bacteria", "p__", "c__Bacilli", "o__", "f__", "g__", "s__">>,
      FullRecord \o <<"t__168">>,
      <<"d__Bacteria", "p__Firmicutes", "p__Proteobacteria", "c__Bacilli">>,
      <<"c__Bacilli", "p__Firmicutes", "g__Bacillus">>,
      <<"d__Bacteria", "", "g__Bacillus">> }

\* taxonomy strings that do not end in a semicolon
BaseStrings ==
    { "d__X",
      "d__X;p__Y;c__Z",
      "d__X; p__W ;c__Z",
      Join(FullRecord, ";"),
      Join(Bacillus \o <<"s__">>, "; ") }

\* the same with a trailing semicolon, two of them, a lone semicolon and nothing
SampleStrings ==
    BaseStrings \cup { str \o ";" : str \in BaseStrings } \cup { "d__X;;", ";", "" }

\* what follows the identifier on a line of a taxonomy file: a tab, the taxonomy
\* string and the newline, or the newline alone
SampleLineEnds ==
    { "\t" \o str \o "\n" :
        str \in { "d__X;p__Y;c__Z", "d__X;p__Y;c__Z;", "d__X; p__W ;c__Z",
                  Join(FullRecord, ";") \o ";", "d__X;;", ";", "" } }
    \cup { "\n" }

\* the files of n lines, the k-th line with the k-th identifier
SampleFiles(n) ==
    { [k \in 1..n |-> UniqueId(k) \o ends[k]] : ends \in [1..n -> SampleLineEnds] }

\* the labels of a leaf's ancestors, from its parent node up to the root
SampleAncestors ==
    { \* the species label holds the epithet only
      <<"s__subtilis",
        "p__Firmicutes;c__Bacilli;o__Bacillales;f__Bacillaceae;g__Bacillus",
        "d__Bacteria">>,
      \* support values, alone and before a taxonomy string; a node without a label
      <<"0.95", "g__Bacillus", "", "100:d__Bacteria; p__Firmicutes">>,
      \* the species label holds the genus name
      <<"s__Bacillus subtilis", "95:f__Bacillaceae; g__Bacillus",
        "d__Bacteria;p__Firmicutes;c__Bacilli;o__Bacillales">>,
      \* seven ranks, the species unclassified
      <<"s__", "f__Bacillaceae;g__Bacillus",
        "d__Bacteria;p__Firmicutes;c__Bacilli;o__Bacillales">>,
      \* seven ranks, the genus unclassified
      <<"s__subtilis", "d__Bacteria;p__Firmicutes;c__Bacilli;o__Bacillales;f__Bacillaceae;g__">>,
      \* eight taxa
      <<"t__168", "s__Bacillus subtilis",
        "d__Bacteria;p__Firmicutes;c__Bacilli;o__Bacillales;f__Bacillaceae;g__Bacillus">>,
      \* a taxonomy string with a colon in it
      <<"0.9:g__Bacillus; s__Bacillus sp. ATCC:6051",
        "d__Bacteria;p__Firmicutes;c__Bacilli;o__Bacillales;f__Bacillaceae">>,
      \* no taxonomy label at all
      <<"", "0.8">> }

\* the trees of n leaves, the k-th leaf with the k-th identifier
SampleTrees(n) ==
    { [k \in 1..n |-> [label |-> UniqueId(k), ancestors |-> chains[k]]] :
        chains \in [1..n -> SampleAncestors] }

\* the species names handed to validate_species_name
SampleSpeciesNames ==
    { "s__", "", "s__Escherichia coli", "Escherichia coli", "s__Escherichia",
      "s__ coli", "s__bacillus subtilis",
      "s__Candidatus Bacillus", "s__Candidatus Bacillus subtilis",
      "s__CANDIDATUS bacterium",
      "s__Some bacterium", "s__Some BACTERIUM", "s__some bacterium",
      "s__Some archaeon", "s__Some archeaon", "s__Some bacterium archaeon",
      "s__Bacillus-like sp", "s__Bacillus group A", "s__Some symbiont",
      "s__Some endosymbiont", "s__Some taxon", "s__Some cluster",
      "s__Member of Bacillus", "s__Bacillus sp.", "s__Bacillus sp. of X",
      "s__bacillus sp.", "sp." }

\* the labels handed to extract_valid_species_name: the species names, and labels
\* with more than two names
SampleLabels ==
    SampleSpeciesNames \cup
    { "Escherichia coli K12", "s__Bacillus subtilis-like strain",
      "Candidatus Bacillus subtilis", "candidatus", "s__Bacillus  subtilis" }

----------------------------------------------------------------------------
(* The state machine: a collection is constructed record by record, and is  *)
(* then validated or queried: one call on the collection as it stands       *)

NoCall == [op |-> "none"]
NoResult == [status |-> "none"]

Init ==
    /\ taxonomy = <<>>
    /\ call = NoCall
    /\ ret = NoResult

\* d[unique_id] = [taxa of the line]
AddRecord(taxa) ==
    /\ call = NoCall
    /\ Len(taxonomy) < MaxRecords
    /\ taxonomy' = Append(taxonomy, [id |-> UniqueId(Len(taxonomy) + 1), taxa |-> taxa])
    /\ UNCHANGED <<call, ret>>

Validate(check_prefixes, check_ranks, check_hierarchy, check_species) ==
    /\ call = NoCall
    /\ call' = [op |-> "validate", check_prefixes |-> check_prefixes,
                check_ranks |-> check_ranks, check_hierarchy |-> check_hierarchy,
                check_species |-> check_species]
    /\ ret' = validate(taxonomy, check_prefixes, check_ranks, check_hierarchy, check_species)
    /\ UNCHANGED taxonomy

TaxonomicConsistency(report_errors) ==
    /\ call = NoCall
    /\ call' = [op |-> "taxonomic_consistency", report_errors |-> report_errors]
    /\ ret' = taxonomic_consistency(taxonomy, report_errors)
    /\ UNCHANGED taxonomy

Children(taxon) ==
    /\ call = NoCall
    /\ call' = [op |-> "children", taxon |-> taxon]
    /\ ret' = children(taxon, taxonomy)
    /\ UNCHANGED taxonomy

Parents ==
    /\ call = NoCall
    /\ call' = [op |-> "parents"]
    /\ ret' = parents(taxonomy)
    /\ UNCHANGED taxonomy

ExtantTaxaForRank(rank) ==
    /\ call = NoCall
    /\ call' = [op |-> "extant_taxa_for_rank", rank |-> rank]
    /\ ret' = extant_taxa_for_rank(rank, taxonomy)
    /\ UNCHANGED taxonomy

\* validate_species_name on a species taxon of the collection
ValidateSpeciesName(species_name, require_full, require_prefix) ==
    /\ call = NoCall
    /\ call' = [op |-> "validate_species_name", species_name |-> species_name,
                require_full |-> require_full, require_prefix |-> require_prefix]
    /\ ret' = validate_species_name(species_name, require_full, require_prefix)
    /\ UNCHANGED taxonomy

Next ==
    \/ \E taxa \in SampleRecords : AddRecord(taxa)
    \/ \E cp, cr, ch, cs \in BOOLEAN : Validate(cp, cr, ch, cs)
    \/ \E report_errors \in BOOLEAN : TaxonomicConsistency(report_errors)
    \/ \E taxon \in TaxaOf(taxonomy) : Children(taxon)
    \/ Parents
    \/ \E rank \in Items(rank_labels) : ExtantTaxaForRank(rank)
    \/ \E species_name \in SpeciesOf(taxonomy), require_full, require_prefix \in BOOLEAN :
           ValidateSpeciesName(species_name, require_full, require_prefix)

Spec == Init /\ [][Next]_vars

----------------------------------------------------------------------------
(* The second state machine: a collection is constructed by one call, from a *)
(* taxonomy file or from the labels of a tree, and is then written; the      *)
(* functions on strings and lists are called on their own                    *)

\* d = read(taxonomy_file)
Read(taxonomy_file) ==
    /\ call = NoCall
    /\ call' = [op |-> "read", taxonomy_file |-> taxonomy_file]
    /\ ret' = read(taxonomy_file)
    /\ taxonomy' = IF ret'.status = "ok" THEN ret'.value ELSE taxonomy

\* taxonomy = read_from_tree(tree)
ReadFromTree(tree) ==
    /\ call = NoCall
    /\ call' = [op |-> "read_from_tree", tree |-> tree]
    /\ ret' = read_from_tree(tree)
    /\ taxonomy' = IF ret'.status = "ok" THEN ret'.value ELSE taxonomy

\* write(taxonomy, output_file) of the collection just constructed: the result is
\* the file written
Write ==
    /\ call.op \in {"read", "read_from_tree"}
    /\ ret.status = "ok"
    /\ call' = [op |-> "write"]
    /\ ret' = Returns(write(taxonomy))
    /\ UNCHANGED taxonomy

Taxa(tax_str) ==
    /\ call = NoCall
    /\ call' = [op |-> "taxa", tax_str |-> tax_str]
    /\ ret' = Taxonomy_taxa(tax_str)
    /\ UNCHANGED taxonomy

CheckFull(tax_str) ==
    /\ call = NoCall
    /\ call' = [op |-> "check_full", tax_str |-> tax_str]
    /\ ret' = check_full(tax_str)
    /\ UNCHANGED taxonomy

ExtractValidSpeciesName(taxon) ==
    /\ call = NoCall
    /\ call' = [op |-> "extract_valid_species_name", taxon |-> taxon]
    /\ ret' = extract_valid_species_name(taxon)
    /\ UNCHANGED taxonomy

TaxaAtRanks(tax_str) ==
    /\ call = NoCall
    /\ call' = [op |-> "taxa_at_ranks", tax_str |-> tax_str]
    /\ ret' = taxa_at_ranks(tax_str)
    /\ UNCHANGED taxonomy

FillMissingRanks(taxa_list) ==
    /\ call = NoCall
    /\ call' = [op |-> "fill_missing_ranks", taxa |-> taxa_list]
    /\ ret' = fill_missing_ranks(taxa_list)
    /\ UNCHANGED taxonomy

FunctionNext ==
    \/ \E n \in 0..MaxRecords : \E taxonomy_file \in SampleFiles(n) : Read(taxonomy_file)
    \/ \E n \in 0..MaxRecords : \E tree \in SampleTrees(n) : ReadFromTree(tree)
    \/ Write
    \/ \E tax_str \in SampleStrings : Taxa(tax_str)
    \/ \E tax_str \in SampleStrings : CheckFull(tax_str)
    \/ \E tax_str \in SampleStrings : TaxaAtRanks(tax_str)
    \/ \E taxa_list \in SampleTaxa : FillMissingRanks(taxa_list)
    \/ \E species_name \in SampleSpeciesNames, require_full, require_prefix \in BOOLEAN :
           ValidateSpeciesName(species_name, require_full, require_prefix)
    \/ \E taxon \in SampleLabels : ExtractValidSpeciesName(taxon)

FunctionSpec == Init /\ [][FunctionNext]_vars

----------------------------------------------------------------------------
(* The third state machine: the collections the hierarchy check is about are *)
(* constructed record by record, and are then reconciled or validated        *)

ReconciledRecords ==
    { \* one class under three phyla, once in a record the reconciler skips
      <<"d__X", "p__Y", "c__Z">>,
      <<"d__X", "p__W", "c__Z">>,
      <<"d__X", "p__V", "c__Z">>,
      <<"d__Viruses", "p__Y", "c__Z">>,
      \* one species under two genera
      FullRecord,
      <<"d__Bacteria", "p__Firmicutes", "c__Bacilli", "o__Bacillales", "f__Bacillaceae",
        "g__Geobacillus", "s__Bacillus subtilis">>,
      \* a record as fill_missing_ranks leaves it: a named phylum below an
      \* unclassified domain, a named species below an unclassified genus
      <<"d__", "p__Firmicutes", "c__Bacilli", "o__Bacillales", "f__Bacillaceae",
        "g__", "s__subtilis">>,
      \* the phylum left out and the class unclassified, in two domains
      <<"d__X", "c__">>,
      <<"d__Y", "c__">> }

ReconcileNext ==
    \/ \E taxa \in ReconciledRecords : AddRecord(taxa)
    \/ \E cp, cr, ch, cs \in BOOLEAN : Validate(cp, cr, ch, cs)
    \/ \E report_errors \in BOOLEAN : TaxonomicConsistency(report_errors)

ReconcileSpec == Init /\ [][ReconcileNext]_vars

----------------------------------------------------------------------------
(* Vocabulary of the properties, stated on the collection itself *)

RecordIndexes == 1..Len(taxonomy)
Identifiers == { taxonomy[k].id : k \in RecordIndexes }
BarePrefixes == Items(rank_prefixes)

\* the positions <<k, r>>: rank r (from 0) of the k-th record
Positions ==
    UNION { { <<k, r>> : r \in 0..(Len(taxonomy[k].taxa) - 1) } : k \in RecordIndexes }
TaxonAt(pos) == At(taxonomy[pos[1]].taxa, pos[2])
PrecedingTaxon(pos) == At(taxonomy[pos[1]].taxa, pos[2] - 1)

\* a record excluded from reconciliation
Excluded(taxa) == taxa[1] = "d__Viruses" \/ Contains("[P]", taxa[1])

\* an unclassified placeholder stands at rank r of the record
PlaceholderAt(taxa, r) == r < Len(rank_prefixes) /\ At(taxa, r) = At(rank_prefixes, r)

\* the positions at rank >= 1 that hold a named taxon
NamedPositions ==
    { pos \in Positions : pos[2] >= 1 /\ TaxonAt(pos) \notin BarePrefixes }

\* the positions the reconciler's walk reaches: rank >= 1 of a record that is not
\* excluded, with no placeholder at ranks 1..r
WalkedPositions ==
    { pos \in Positions :
        /\ pos[2] >= 1
        /\ ~Excluded(taxonomy[pos[1]].taxa)
        /\ \A j \in 1..pos[2] : ~PlaceholderAt(taxonomy[pos[1]].taxa, j) }

\* pos comes later than other in the processing order
Later(pos, other) == pos[1] > other[1] \/ (pos[1] = other[1] /\ pos[2] > other[2])

FirstOf(S) == CHOOSE pos \in S : \A other \in S : other = pos \/ Later(other, pos)
LastOf(S) == CHOOSE pos \in S : \A other \in S : other = pos \/ Later(pos, other)

ValidateCalled == call.op = "validate"
ValidateReturned == call.op = "validate" /\ ret.status = "ok"
ConsistencyReturned == call.op = "taxonomic_consistency" /\ ret.status = "ok"

\* the collection without its k-th record
Without(records, k) == SubSeq(records, 1, k - 1) \o SubSeq(records, k + 1, Len(records))

----------------------------------------------------------------------------
(* C1 *)

\* the parents the records that are not excluded give a taxon
ImpliedParents(taxon) ==
    { PrecedingTaxon(pos) :
        pos \in { q \in NamedPositions :
                    TaxonAt(q) = taxon /\ ~Excluded(taxonomy[q[1]].taxa) } }

\* C1: validate with hierarchy checking reports every named taxon that records
\* which are not excluded give two or more distinct parents, with exactly the set
\* of those parents.
C1_ConflictDetectionComplete ==
    (ValidateCalled /\ call.check_hierarchy) =>
        \A pos \in NamedPositions :
            Cardinality(ImpliedParents(TaxonAt(pos))) >= 2 =>
                /\ ret.status = "ok"
                /\ TaxonAt(pos) \in DOMAIN ret.value.invalid_hierarchies
                /\ ret.value.invalid_hierarchies[TaxonAt(pos)] = ImpliedParents(TaxonAt(pos))

----------------------------------------------------------------------------
(* C2 *)

\* every named taxon has the same preceding taxon wherever it is mentioned
SingleParents ==
    \A pos, other \in NamedPositions :
        TaxonAt(pos) = TaxonAt(other) => PrecedingTaxon(pos) = PrecedingTaxon(other)

TwoBacillus ==
    /\ Len(taxonomy) = 2
    /\ { taxonomy[1].taxa, taxonomy[2].taxa } =
           { Bacillus \o <<"s__Bacillus subtilis">>, Bacillus \o <<"s__">> }

\* C2: on a collection in which every named taxon has one parent, validate with
\* hierarchy checking returns an empty set of conflicting hierarchies, and the two
\* Bacillus records give no diagnostic of any kind with every check enabled.
C2_NoFalsePositives ==
    /\ (ValidateCalled /\ call.check_hierarchy /\ SingleParents) =>
           (ret.status = "ok" /\ ret.value.invalid_hierarchies = EmptyDict)
    /\ (ValidateCalled /\ TwoBacillus /\ call.check_prefixes /\ call.check_ranks
            /\ call.check_hierarchy /\ call.check_species) =>
           ret = Returns([invalid_ranks |-> EmptyDict, invalid_prefixes |-> EmptyDict,
                          invalid_species_name |-> EmptyDict,
                          invalid_hierarchies |-> EmptyDict])

----------------------------------------------------------------------------
(* C3 *)

WalkedPositionsOf(taxon) == { pos \in WalkedPositions : TaxonAt(pos) = taxon }
WalkedTaxa == { TaxonAt(pos) : pos \in WalkedPositions }

----------------------------------------------------------------------------
(* C4 *)

\* C4: validate runs to completion on every collection and every combination of
\* the four toggles: it returns the four diagnostic sets and raises nothing.
C4_ValidateRunsToCompletion ==
    ValidateCalled =>
        /\ ret.status = "ok"
        /\ DOMAIN ret.value = { "invalid_ranks", "invalid_prefixes",
                                "invalid_species_name", "invalid_hierarchies" }

----------------------------------------------------------------------------
(* C5 *)

\* the rank of the first placeholder at rank >= 1, or the length when there is none
FirstPlaceholder(taxa) ==
    IF \E r \in 1..(Len(taxa) - 1) : PlaceholderAt(taxa, r)
    THEN CHOOSE r \in 1..(Len(taxa) - 1) :
             PlaceholderAt(taxa, r) /\ \A j \in 1..(r - 1) : ~PlaceholderAt(taxa, j)
    ELSE Len(taxa)

\* the collection with every record cut at its first placeholder
StoppedWalks(records) ==
    [k \in 1..Len(records) |->
        [id |-> records[k].id,
         taxa |-> Slice(records[k].taxa, 0, FirstPlaceholder(records[k].taxa))]]

\* C5: the hierarchy check stops the walk over a record at its first placeholder: a
\* taxon named below it gets nothing from that record, neither a parent in the
\* ParentMap nor a parent (least of all a bare prefix) in its conflict set.
C5_WalkStopsAtFirstPlaceholder ==
    /\ ConsistencyReturned =>
           ret = taxonomic_consistency(StoppedWalks(taxonomy), call.report_errors)
    /\ (ValidateReturned /\ call.check_hierarchy) =>
           /\ \A taxon \in DOMAIN ret.value.invalid_hierarchies :
                  ret.value.invalid_hierarchies[taxon] \cap BarePrefixes = {}
           /\ Returns(ret.value.invalid_hierarchies) =
                  CheckHierarchy(StoppedWalks(taxonomy), TRUE, call.check_species)

----------------------------------------------------------------------------
(* C6 *)

ExcludedRecords == { k \in RecordIndexes : Excluded(taxonomy[k].taxa) }

\* C6: an excluded record (domain d__Viruses, or [P] in its first taxon) is skipped
\* entirely by the hierarchy check: with or without it the ParentMap and the
\* conflicting hierarchies are the same.
C6_ExcludedRecordsSkipped ==
    /\ ConsistencyReturned =>
           \A k \in ExcludedRecords :
               ret = taxonomic_consistency(Without(taxonomy, k), call.report_errors)
    /\ (ValidateReturned /\ call.check_hierarchy) =>
           \A k \in ExcludedRecords :
               Returns(ret.value.invalid_hierarchies) =
                   CheckHierarchy(Without(taxonomy, k), TRUE, call.check_species)

----------------------------------------------------------------------------
(* C7 *)

WrongRankCount == { k \in RecordIndexes : Len(taxonomy[k].taxa) # 7 }

\* a taxon of the record, among its first seven, lacks the prefix of its rank
HasInvalidPrefix(taxa) ==
    \E r \in 0..(Min(Len(taxa), 7) - 1) : ~StartsWith(At(taxa, r), At(rank_prefixes, r))

\* the record has a species taxon that the species-name check rejects
HasInvalidSpecies(taxa) ==
    /\ Len(taxa) >= 7
    /\ LET checked == validate_species_name(taxa[7], TRUE, TRUE)
       IN  checked.status = "ok" /\ ~checked.value[1]

----------------------------------------------------------------------------
(* C8 *)

\* the records that have a taxon at the rank, and those that have this taxon there
HavingRank(rank_idx) == { k \in RecordIndexes : Len(taxonomy[k].taxa) > rank_idx }
HavingTaxon(taxon, rank_idx) ==
    { taxonomy[k].id : k \in { j \in HavingRank(rank_idx) : At(taxonomy[j].taxa, rank_idx) = taxon } }

\* C8: extant_taxa maps each named taxon occurring at the rank to exactly the
\* identifiers of the records having it at that rank, and has no key that is the
\* unclassified placeholder of the rank.
C8_ExtantTaxaGroupsNamedTaxa ==
    (call.op = "extant_taxa_for_rank" /\ ret.status = "ok") =>
        LET rank_idx == Index(rank_labels, call.rank)
        IN  /\ DOMAIN ret.value =
                   { At(taxonomy[k].taxa, rank_idx) : k \in HavingRank(rank_idx) }
                       \ { At(rank_prefixes, rank_idx) }
            /\ \A taxon \in DOMAIN ret.value :
                   ret.value[taxon] = HavingTaxon(taxon, rank_idx)

----------------------------------------------------------------------------
(* C9 *)

\* the named taxa standing at a deeper rank than taxon in some record containing it
NamedTaxaBelow(taxon) ==
    { TaxonAt(pos) :
        pos \in { q \in Positions :
                    /\ TaxonAt(q) \notin BarePrefixes
                    /\ \E i \in 0..(q[2] - 1) : At(taxonomy[q[1]].taxa, i) = taxon } }

ChildrenOfHigherRank == call.op = "children" /\ ~StartsWith(call.taxon, "s__")

\* C9: for a taxon that is not a species, children is exactly the set of named taxa
\* at a deeper rank in some record containing the taxon; it holds no bare prefix and
\* no identifier.
C9_ChildrenAreNamedDeeperTaxa ==
    ChildrenOfHigherRank =>
        /\ ret = Returns(NamedTaxaBelow(call.taxon))
        /\ ret.value \cap BarePrefixes = {}
        /\ ret.value \cap Identifiers = {}

\* children was called for a taxon above both a placeholder and a named taxon
C9_Witness ==
    /\ ChildrenOfHigherRank
    /\ ret.status = "ok" /\ ret.value # {}
    /\ \E pos, gap \in Positions :
           /\ pos[1] = gap[1] /\ pos[2] < gap[2]
           /\ TaxonAt(pos) = call.taxon
           /\ TaxonAt(gap) \in BarePrefixes

----------------------------------------------------------------------------
(* C10 *)

AllTaxa == { TaxonAt(pos) : pos \in Positions }
PositionsOf(taxon) == { pos \in Positions : TaxonAt(pos) = taxon }
Ancestors(pos) == Slice(taxonomy[pos[1]].taxa, 0, pos[2])

\* C10 as claimed: parents has an entry for every taxon of every record, taxa of
\* the domain rank included, and the value for the taxon at rank i of a record is
\* that record's taxa[0..i-1].
C10_ParentsOfEveryTaxon ==
    (call.op = "parents" /\ ret.status = "ok") =>
        \A pos \in Positions :
            /\ TaxonAt(pos) \in DOMAIN ret.value
            /\ ret.value[TaxonAt(pos)] = Ancestors(pos)

\* C10 as amended: parents has an entry for every identifier (its whole record) and
\* for every taxon standing at a rank index >= 1 of some record, and for no taxon
\* that stands at the domain rank only; the value for a taxon is taxa[0..i-1] of
\* its last occurrence at an index i >= 1 in processing order.
C10_ParentsOfLastOccurrence ==
    (call.op = "parents" /\ ret.status = "ok") =>
        /\ DOMAIN ret.value =
               Identifiers \cup { TaxonAt(pos) : pos \in { q \in Positions : q[2] >= 1 } }
        /\ \A k \in RecordIndexes : ret.value[taxonomy[k].id] = taxonomy[k].taxa
        /\ \A taxon \in (DOMAIN ret.value) \ Identifiers :
               ret.value[taxon] =
                   Ancestors(LastOf({ pos \in PositionsOf(taxon) : pos[2] >= 1 }))

\* parents was called on a collection with a taxon of the domain rank only and a
\* taxon that two records put under different ancestors
C10_Witness ==
    /\ call.op = "parents" /\ ret.status = "ok"
    /\ \E taxon \in AllTaxa : \A pos \in PositionsOf(taxon) : pos[2] = 0
    /\ \E pos, other \in Positions :
           /\ pos[2] >= 1
           /\ TaxonAt(pos) = TaxonAt(other)
           /\ Ancestors(pos) # Ancestors(other)

----------------------------------------------------------------------------
(* C11 *)

FillCalled == call.op = "fill_missing_ranks"

\* the taxa of a list start with the prefixes of the ranks, one rank after the other
PrefixedByRank(taxa_list) ==
    \A i \in 0..(Len(taxa_list) - 1) :
        i < Len(rank_prefixes) /\ StartsWith(At(taxa_list, i), At(rank_prefixes, i))

\* C11: fill_missing always returns a well-formed record of 7 ranks, for a
\* rank-ordered input of at most 7 taxa and also when input is left over: the
\* output has exactly 7 taxa and the i-th starts with the prefix of rank i.
C11_FilledRecordWellFormed ==
    FillCalled =>
        /\ ret.status = "ok"
        /\ Len(ret.value) = 7
        /\ PrefixedByRank(ret.value)

\* a list was filled that leaves input over and has a gap
C11_Witness ==
    /\ FillCalled
    /\ ret.status = "ok"
    /\ \E taxon \in Items(call.taxa) : taxon \notin Items(ret.value)
    /\ Items(ret.value) \cap BarePrefixes # {}

----------------------------------------------------------------------------
(* C12 *)

\* C12: fill_missing is idempotent: filling its own output changes nothing, and a
\* list of 7 taxa that carry the prefixes of their ranks is returned unchanged.
C12_FillIdempotent ==
    FillCalled =>
        /\ fill_missing_ranks(ret.value) = ret
        /\ (Len(call.taxa) = 7 /\ PrefixedByRank(call.taxa)) => ret = Returns(call.taxa)

\* a list with fewer than 7 taxa was filled: the output is not the input
C12_Witness ==
    /\ FillCalled
    /\ ret.status = "ok"
    /\ Len(call.taxa) \in 1..6
    /\ PrefixedByRank(ret.value)
    /\ ret.value # call.taxa
    /\ Items(call.taxa) \subseteq Items(ret.value)

----------------------------------------------------------------------------
(* C13 *)

\* str ends in a semicolon, and str without its last character
EndsInSemicolon(str) == str # "" /\ SubSeq(str, Len(str), Len(str)) = ";"
ButLast(str) == SubSeq(str, 1, Len(str) - 1)

\* the taxonomy string of a line that has a tab: what stands between the tab and
\* the newline
RankStringOf(line) == ButLast(At(Split(line, "\t"), 1))

\* a line with a semicolon put after its taxonomy string, when the string is not
\* empty and does not end in one
WithSemicolon(line) ==
    IF Contains("\t", line) /\ RankStringOf(line) # "" /\ ~EndsInSemicolon(RankStringOf(line))
    THEN ButLast(line) \o ";\n"
    ELSE line

\* C13: parse strips one trailing ';' before splitting: for a string s that is not
\* empty and does not end in ';', s with ';' after it parses as s does (in taxa and
\* in read), and the string of 7 ranks with a trailing semicolon passes the
\* completeness check.
C13_TrailingSemicolonStripped ==
    /\ (call.op = "taxa" /\ ButLast(call.tax_str) \in BaseStrings
            /\ EndsInSemicolon(call.tax_str)) =>
           ret = Taxonomy_taxa(ButLast(call.tax_str))
    /\ (call.op = "check_full" /\ call.tax_str = Join(FullRecord, ";") \o ";") =>
           ret = Returns(TRUE)
    /\ call.op = "read" =>
           ret = read([k \in 1..Len(call.taxonomy_file) |->
                          WithSemicolon(call.taxonomy_file[k])])

----------------------------------------------------------------------------
(* C14 *)

\* s with the whitespace around each entry trimmed
TrimmedEntries(str) == Join(StrippedTaxa(str), ";")

\* str without one final semicolon, when it has one
WithoutFinalSemicolon(str) == IF EndsInSemicolon(str) THEN ButLast(str) ELSE str

\* the collection as a mapping from identifier to taxa
AsMapping(records) ==
    [unique_id \in { records[k].id : k \in 1..Len(records) } |->
        (CHOOSE rec \in Items(records) : rec.id = unique_id).taxa]

\* no tab, semicolon or newline in a string
PlainText(str) == ~Contains("\t", str) /\ ~Contains(";", str) /\ ~Contains("\n", str)

\* records that are not empty, without tab, semicolon or newline in identifiers or taxa
NonEmptyRecords ==
    \A k \in RecordIndexes :
        /\ Len(taxonomy[k].taxa) > 0
        /\ PlainText(taxonomy[k].id)
        /\ \A taxon \in Items(taxonomy[k].taxa) : PlainText(taxon)

\* taxa without whitespace around them, the last of each record not empty
TrimmedRecords ==
    \A k \in RecordIndexes :
        /\ \A taxon \in Items(taxonomy[k].taxa) : Strip(taxon) = taxon
        /\ taxonomy[k].taxa[Len(taxonomy[k].taxa)] # ""

ReadReturned == call.op = "read" /\ ret.status = "ok"

\* C14 as claimed: joining the parsed taxa of a rank string with ';' gives the
\* string with the whitespace around each entry trimmed, and writing a collection of
\* non-empty records and reading the file back gives the same mapping.
C14_RoundTrip ==
    /\ ReadReturned =>
           \A k \in RecordIndexes :
               Join(taxonomy[k].taxa, ";") =
                   TrimmedEntries(RankStringOf(call.taxonomy_file[k]))
    /\ (call.op = "write" /\ NonEmptyRecords) =>
           LET back == read(ret.value)
           IN  back.status = "ok" /\ AsMapping(back.value) = AsMapping(taxonomy)

\* C14 as amended: joining the parsed taxa gives the string with the whitespace
\* around each entry trimmed and without one final semicolon, and writing and
\* reading back gives the same mapping for non-empty records whose taxa have no
\* whitespace around them and whose last taxon is not empty.
C14_RoundTripOfTrimmedRecords ==
    /\ ReadReturned =>
           \A k \in RecordIndexes :
               Join(taxonomy[k].taxa, ";") =
                   WithoutFinalSemicolon(TrimmedEntries(RankStringOf(call.taxonomy_file[k])))
    /\ (call.op = "write" /\ NonEmptyRecords /\ TrimmedRecords) =>
           LET back == read(ret.value)
           IN  back.status = "ok" /\ AsMapping(back.value) = AsMapping(taxonomy)

\* a collection of two records or more, read from strings with whitespace in them
\* or a semicolon after them, was written
C14_Witness ==
    /\ call.op = "write"
    /\ Len(taxonomy) >= 2
    /\ NonEmptyRecords /\ TrimmedRecords
    /\ \E k \in RecordIndexes : Len(taxonomy[k].taxa) = 7
    /\ \E k \in RecordIndexes : taxonomy[k].taxa = <<"d__X", "p__W", "c__Z">>

----------------------------------------------------------------------------
(* C15, C16: the species name checks *)

SpeciesNameCalled == call.op = "validate_species_name"

\* the name without the species prefix
NameText(species_name) ==
    IF StartsWith(species_name, "s__") THEN SubSeq(species_name, 4, Len(species_name))
    ELSE species_name

\* the number of tokens that single spaces separate
Tokens(text) == 1 + Cardinality({ i \in 1..Len(text) : SubSeq(text, i, i) = " " })

\* fewer than two tokens, or fewer than three in a name with 'candidatus' in it
TooFewTokens(text) ==
    IF Contains("candidatus", Lower(text)) THEN Tokens(text) < 3 ELSE Tokens(text) < 2

MissingGenericNameReason == <<FALSE, "name appears to be missing the generic name">>

\* the name is not the bare prefix and passes the prefix check
PassedPrefixCheck ==
    /\ SpeciesNameCalled
    /\ call.species_name # "s__"
    /\ call.require_prefix => StartsWith(call.species_name, "s__")

\* the name passes the full-name check as well
PassedFullNameCheck ==
    /\ PassedPrefixCheck
    /\ call.require_full => ~TooFewTokens(NameText(call.species_name))

\* the rules of the blocklist as the spec lists them, each with its reason, and the
\* rule on the first letter, the twelfth
BlockList ==
    << <<" bacterium", "name contains the word 'bacterium'">>,
       <<" archaeon", "name contains the word 'archaeon'">>,
       <<" archeaon", "name contains the word 'archeaon'">>,
       <<"-like", "name contains '-like'">>,
       <<" group ", "name contains 'group'">>,
       <<" symbiont", "name contains 'symbiont'">>,
       <<" endosymbiont", "name contains 'endosymbiont'">>,
       <<" taxon", "name contains 'taxon'">>,
       <<" cluster", "name contains 'cluster'">>,
       <<" of ", "name contains 'of'">>,
       <<"sp.", "name contains 'sp.'">> >>
FirstLetterRule == Len(BlockList) + 1

RuleMatches(rule, text) ==
    IF rule = FirstLetterRule
    THEN text # "" /\ SubSeq(text, 1, 1) \in Chars(LowerCase)
    ELSE Contains(BlockList[rule][1], Lower(text))

RuleReason(rule) ==
    IF rule = FirstLetterRule THEN "first letter of name is lowercase"
    ELSE BlockList[rule][2]

\* the verdict when the rules are tried in the given order
Verdict(text, order) ==
    IF \E n \in 1..Len(order) : RuleMatches(order[n], text)
    THEN LET first == CHOOSE n \in 1..Len(order) :
                          /\ RuleMatches(order[n], text)
                          /\ \A m \in 1..(n - 1) : ~RuleMatches(order[m], text)
         IN  <<FALSE, RuleReason(order[first])>>
    ELSE <<TRUE, None>>

\* the order in which the spec lists the rules
ListedOrder == [n \in 1..FirstLetterRule |-> n]

\* C15: a name that passed the prefix check and the full-name check is
\* rejected with the reason of the first rule that matches, in the order ' bacterium',
\* ..., ' of ', 'sp.', first letter lowercase; it is valid exactly when none matches.
C15_ListedRuleOrder ==
    PassedFullNameCheck =>
        ret = Returns(Verdict(NameText(call.species_name), ListedOrder))

\* C16: with require_full, validate_species fails with the reason 'missing generic
\* name' exactly when the name without its prefix has fewer than two tokens, or
\* fewer than three for a name with 'candidatus' in any letter case; this is decided
\* before any rule of the blocklist.
C16_MissingGenericName ==
    (PassedPrefixCheck /\ call.require_full) =>
        (ret = Returns(MissingGenericNameReason) <=> TooFewTokens(NameText(call.species_name)))

\* a name with 'candidatus' in capitals, two tokens and a blocklisted word was checked
C16_Witness ==
    /\ PassedPrefixCheck /\ call.require_full
    /\ ret = Returns(MissingGenericNameReason)
    /\ Tokens(NameText(call.species_name)) = 2
    /\ ~Contains("candidatus", NameText(call.species_name))
    /\ \E rule \in 1..Len(BlockList) : RuleMatches(rule, NameText(call.species_name))

----------------------------------------------------------------------------
(* C17 *)

\* the records whose species taxon is the bare prefix
UnclassifiedSpecies ==
    { k \in RecordIndexes : Len(taxonomy[k].taxa) > 6 /\ At(taxonomy[k].taxa, 6) = "s__" }

\* C17: the bare species prefix 's__' is valid for every combination of require_full
\* and require_prefix, validate_species returns (True, None), and validate with
\* species checking never reports a record whose species taxon is 's__'.
C17_BarePrefixValid ==
    /\ (SpeciesNameCalled /\ call.species_name = "s__") => ret = Returns(<<TRUE, None>>)
    /\ (ValidateReturned /\ call.check_species) =>
           \A k \in UnclassifiedSpecies :
               taxonomy[k].id \notin DOMAIN ret.value.invalid_species_name

\* validate reported a species name of a collection that has an unclassified species
C17_Witness ==
    /\ ValidateReturned /\ call.check_species
    /\ UnclassifiedSpecies # {}
    /\ ret.value.invalid_species_name # EmptyDict

----------------------------------------------------------------------------
(* C18, C19, C20: tree extraction *)

TreeRead == call.op = "read_from_tree"
Leaves == 1..Len(call.tree)

\* the chain collected from the labels of the ancestors of the k-th leaf
ChainOf(k) == AncestorTaxa(<<>>, call.tree[k].ancestors, 1)

\* the record stored under the identifier of the k-th leaf
RecordOf(k) == AsMapping(ret.value)[call.tree[k].label]

\* C18: tree extraction fails fatally exactly when the chain collected for some leaf
\* has more than 7 taxa; otherwise every leaf gets a record of exactly 7 taxa under
\* its identifier.
C18_OverflowIsTheOnlyFailure ==
    TreeRead =>
        /\ ret.status \in {"ok", "SystemExit"}
        /\ ret.status = "SystemExit" <=> \E k \in Leaves : Len(ChainOf(k)) > 7
        /\ ret.status = "ok" =>
               \A k \in Leaves :
                   /\ call.tree[k].label \in DOMAIN AsMapping(ret.value)
                   /\ Len(RecordOf(k)) = 7

\* extraction failed on a tree that has a leaf with a chain of exactly 7 taxa too
C18_Witness ==
    /\ TreeRead
    /\ ret.status = "SystemExit"
    /\ \E k \in Leaves : Len(ChainOf(k)) = 7
    /\ \E k \in Leaves : Len(ChainOf(k)) = 8

\* the name of a taxon: the taxon without the three characters of its prefix
NameOf(taxon) == SubSeq(taxon, 4, Len(taxon))

\* C19: when the chain of a leaf has exactly 7 taxa and the genus name is not a
\* substring of the species name, the species taxon becomes 's__', the genus name, a
\* space and the species name; when it is a substring the species taxon is unchanged.
C19_GenusRepair ==
    (TreeRead /\ ret.status = "ok") =>
        \A k \in { j \in Leaves : Len(ChainOf(j)) = 7 } :
            LET genus == NameOf(ChainOf(k)[6])
                species == NameOf(ChainOf(k)[7])
            IN  RecordOf(k)[7] =
                    IF Contains(genus, species) THEN ChainOf(k)[7]
                    ELSE "s__" \o genus \o " " \o species

\* a tree was read with a species label that has the genus name and one that lacks it
C19_Witness ==
    /\ TreeRead /\ ret.status = "ok"
    /\ \E k \in Leaves : Len(ChainOf(k)) = 7 /\ RecordOf(k)[7] = "s__Bacillus subtilis"
                            /\ ChainOf(k)[7] = "s__subtilis"
    /\ \E k \in Leaves : Len(ChainOf(k)) = 7 /\ RecordOf(k)[7] = ChainOf(k)[7]

\* all that follows the first ':' of a label
AfterFirstColon(label) == SubSeq(label, Find(label, ":") + 2, Len(label))

\* the taxonomy annotation of a label as the claim has it, <<>> for a support value
\* and for a node without a label
Annotation(label) ==
    LET taxa_str == IF Contains(":", label) THEN AfterFirstColon(label) ELSE label
    IN  IF label = "" \/ is_float(taxa_str) THEN <<>> ELSE StrippedTaxa(taxa_str)

\* the annotations of the ancestors from the n-th on, those nearest the root first
RECURSIVE AnnotatedChain(_, _)
AnnotatedChain(ancestors, n) ==
    IF n > Len(ancestors) THEN <<>>
    ELSE AnnotatedChain(ancestors, n + 1) \o Annotation(ancestors[n])

\* C20: a label that parses as a plain number is ignored as a support value, and
\* the taxonomy annotation of a label '<number>:<taxonomy string>' is all that
\* follows the first ':', also when that has a ':' in it: the record of a leaf is
\* made of these annotations.
C20_AnnotationAfterFirstColon ==
    (TreeRead /\ ret.status = "ok") =>
        \A k \in Leaves :
            RecordOf(k) = fill_missing_ranks(
                              AppendGenusName(AnnotatedChain(call.tree[k].ancestors, 1))).value

----------------------------------------------------------------------------
(* C21 *)

\* C21: taxa_at_ranks returns a mapping from rank label to taxon: for a string of
\* k <= 7 taxa the result maps the i-th rank label to the i-th parsed taxon for
\* every i < k.
C21_RankLabelsMapToTaxa ==
    (call.op = "taxa_at_ranks" /\ Len(StrippedTaxa(call.tax_str)) <= 7) =>
        /\ ret.status = "ok"
        /\ \A i \in 0..(Len(StrippedTaxa(call.tax_str)) - 1) :
               /\ At(rank_labels, i) \in DOMAIN ret.value
               /\ ret.value[At(rank_labels, i)] = At(StrippedTaxa(call.tax_str), i)

----------------------------------------------------------------------------
(* C22 *)

\* some taxon the walk reaches is given two different parents
Inconsistent ==
    \E pos, other \in WalkedPositions :
        TaxonAt(pos) = TaxonAt(other) /\ PrecedingTaxon(pos) # PrecedingTaxon(other)

ConsistencyReported == call.op = "taxonomic_consistency" /\ call.report_errors

\* C22: taxonomic_consistency with error reporting returns None exactly when some
\* named taxon, reached before the first placeholder of a record that is not
\* excluded, is given two different parents by two records; otherwise it returns
\* the ParentMap in which every such taxon maps to its parent.
C22_NoneExactlyWhenInconsistent ==
    ConsistencyReported =>
        /\ ret.status \in {"ok", "None"}
        /\ ret.status = "None" <=> Inconsistent
        /\ ret.status = "ok" =>
               /\ DOMAIN ret.value = WalkedTaxa
               /\ \A pos \in WalkedPositions : ret.value[TaxonAt(pos)] = PrecedingTaxon(pos)

----------------------------------------------------------------------------
(* C23 *)

\* C23: validate_species is total: for every string, the empty string and strings
\* without the 's__' prefix included, and every combination of require_full and
\* require_prefix it returns a pair of a boolean and a reason or None, and never
\* raises.
C23_ValidateSpeciesTotal ==
    SpeciesNameCalled =>
        /\ ret.status = "ok"
        /\ Len(ret.value) = 2
        /\ ret.value[1] \in BOOLEAN
        /\ ret.value[1] <=> ret.value[2] = None

----------------------------------------------------------------------------
(* C24 *)

\* the rank a taxon's prefix names
RankOf(taxon) == rank_index(Slice(taxon, 0, 3))

\* at most 7 taxa whose prefixes are rank prefixes, in strictly increasing rank order
StrictlyRankOrdered(taxa_list) ==
    /\ Len(taxa_list) <= 7
    /\ \A i \in 1..Len(taxa_list) : InList(Slice(taxa_list[i], 0, 3), rank_prefixes)
    /\ \A i, j \in 1..Len(taxa_list) : i < j => RankOf(taxa_list[i]) < RankOf(taxa_list[j])

\* the ranks the taxa of a list name
RanksOf(taxa_list) == { RankOf(taxa_list[i]) : i \in 1..Len(taxa_list) }

\* C24: fill_missing loses no input: for an input of at most 7 taxa whose prefixes
\* are canonical rank prefixes in strictly increasing rank order, every input taxon
\* is in the output at the index of its rank, and every other position of the
\* output holds the bare prefix of its rank.
C24_FillLosesNoInput ==
    (FillCalled /\ StrictlyRankOrdered(call.taxa)) =>
        /\ ret.status = "ok"
        /\ DOMAIN ret.value = 1..7
        /\ \A i \in 1..Len(call.taxa) : At(ret.value, RankOf(call.taxa[i])) = call.taxa[i]
        /\ \A r \in 0..6 :
               r \notin RanksOf(call.taxa) => At(ret.value, r) = At(rank_prefixes, r)

\* a list with gaps before, between and after its taxa was filled
C24_Witness ==
    /\ FillCalled
    /\ StrictlyRankOrdered(call.taxa)
    /\ RanksOf(call.taxa) = {1, 2, 5}
    /\ ret.status = "ok"
    /\ Items(ret.value) \cap BarePrefixes = {"d__", "o__", "f__", "s__"}

----------------------------------------------------------------------------
(* C25 *)

\* the processing orders of the collection: the same records in another order
ProcessingOrders ==
    { [k \in RecordIndexes |-> taxonomy[p[k]]] : p \in Permutations(RecordIndexes) }

HierarchyChecked == ValidateReturned /\ call.check_hierarchy

\* C25: the conflicting-hierarchy diagnostic validate returns does not depend on the
\* order in which the records are processed: every processing order of the same
\* records gives the same mapping from taxon to parents.
C25_DiagnosticIndependentOfOrder ==
    HierarchyChecked =>
        \A records \in ProcessingOrders :
            CheckHierarchy(records, TRUE, call.check_species) =
                Returns(ret.value.invalid_hierarchies)

\* conflicts were reported for a collection whose ParentMap depends on the order
C25_Witness ==
    /\ HierarchyChecked
    /\ ret.value.invalid_hierarchies # EmptyDict
    /\ \E records \in ProcessingOrders :
           taxonomic_consistency(records, FALSE) # taxonomic_consistency(taxonomy, FALSE)

----------------------------------------------------------------------------
(* C26 *)

\* every record of the collection has 7 taxa that carry the prefixes of their ranks
SevenPrefixedTaxa ==
    \A k \in RecordIndexes :
        Len(taxonomy[k].taxa) = 7 /\ PrefixedByRank(taxonomy[k].taxa)

\* a taxon with a rank prefix and a name after it
Named(taxon) == InList(Slice(taxon, 0, 3), rank_prefixes) /\ Len(taxon) > 3

\* C26: for a collection of records with 7 correctly prefixed taxa, every key of the
\* ParentMap is a named taxon of rank phylum..species and its value is a named
\* taxon that carries the prefix of the rank immediately before.
C26_ParentMapWellFormed ==
    (ConsistencyReturned /\ SevenPrefixedTaxa) =>
        \A taxon \in DOMAIN ret.value :
            /\ Named(taxon)
            /\ RankOf(taxon) \in 1..6
            /\ Named(ret.value[taxon])
            /\ RankOf(ret.value[taxon]) = RankOf(taxon) - 1

----------------------------------------------------------------------------
(* C27 *)

\* the taxa that stand right before a taxon in the records of the collection
PrecedingTaxa(taxon) ==
    { PrecedingTaxon(pos) : pos \in { q \in Positions : q[2] >= 1 /\ TaxonAt(q) = taxon } }

\* C27: every entry of the conflicting-hierarchy diagnostic is a genuine conflict:
\* its key is a named taxon, its parent set has at least two distinct members, and
\* every member is the taxon immediately preceding the key in some record.
C27_EveryEntryGenuineConflict ==
    HierarchyChecked =>
        \A taxon \in DOMAIN ret.value.invalid_hierarchies :
            /\ Named(taxon)
            /\ Cardinality(ret.value.invalid_hierarchies[taxon]) >= 2
            /\ ret.value.invalid_hierarchies[taxon] \subseteq PrecedingTaxa(taxon)

----------------------------------------------------------------------------
(* C28 *)

\* C28: tree extraction never turns an unclassified species into a named one: when
\* the chain collected for a leaf has 7 taxa and its species taxon is the bare
\* placeholder 's__', the species taxon of the record is still 's__'.
C28_UnclassifiedSpeciesKept ==
    (TreeRead /\ ret.status = "ok") =>
        \A k \in { j \in Leaves : Len(ChainOf(j)) = 7 /\ ChainOf(j)[7] = "s__" } :
            RecordOf(k)[7] = "s__"

----------------------------------------------------------------------------
(* C29 *)

\* the tokens of the cleaned label: what single spaces separate in the label
\* without the species prefix and the word Candidatus
CleanedTokens(label) == Split(WithoutPrefixAndCandidatus(label), " ")

\* C29: whenever extract_valid_species_name returns a name, that name is 's__'
\* followed by the first two space-separated tokens of the cleaned label, and
\* validate_species with require_full and require_prefix both set accepts it.
C29_ExtractedNameIsValid ==
    (call.op = "extract_valid_species_name" /\ ret.status = "ok") =>
        /\ Len(CleanedTokens(call.taxon)) >= 2
        /\ ret.value = "s__" \o CleanedTokens(call.taxon)[1] \o " "
                             \o CleanedTokens(call.taxon)[2]
        /\ validate_species_name(ret.value, TRUE, TRUE) = Returns(<<TRUE, None>>)

----------------------------------------------------------------------------
(* C30 *)

\* the conflicts of a diagnostic whose key is no species-rank taxon of the collection
AboveSpecies(invalid_hierarchies) ==
    [taxon \in DOMAIN invalid_hierarchies \ SpeciesOf(taxonomy) |-> invalid_hierarchies[taxon]]

\* C30: with hierarchy checking enabled and species checking disabled, no
\* species-rank taxon is a key of the conflicting-hierarchy diagnostic, and the
\* conflicts of the taxa at ranks phylum..genus are reported exactly as they are
\* with species checking enabled.
C30_SpeciesToggleFrame ==
    (HierarchyChecked /\ ~call.check_species) =>
        /\ DOMAIN ret.value.invalid_hierarchies \cap SpeciesOf(taxonomy) = {}
        /\ CheckHierarchy(taxonomy, TRUE, TRUE).status = "ok"
        /\ AboveSpecies(CheckHierarchy(taxonomy, TRUE, TRUE).value) =
               ret.value.invalid_hierarchies

====
